---- MODULE Spec2Model ----
(***************************************************************************)
(* A model of skfuzzy/control/fuzzyvariable.py: FuzzyVariableTerm objects  *)
(* on a heap, FuzzyVariable objects holding an insertion-ordered mapping   *)
(* label -> term, the crisp-value property (getter and setter), the        *)
(* negation view not_ and automf.                                          *)
(*                                                                         *)
(* Reals are fixed-point integers: ONE stands for 1.0 and EPS for 1e-6,    *)
(* so one unit is 0.5e-6.  Samples and degrees are real numbers, as the    *)
(* data model has them; the float NaN is not among them.                   *)
(***************************************************************************)
EXTENDS Integers, Sequences, FiniteSets, TLC

ONE == 2000000
EPS == 2
HALF == ONE \div 2

\* Bound on the number of term objects alive at one time.
MaxTerms == 3

\* Bound on the number of terms the caller constructs and keeps a reference to.
MaxHeld == 1

\* Bound on the number of term objects alive at one time where automf is
\* called with every supported number.
MaxAutoTerms == 7

\* The FuzzyVariable objects of the model.
Vars == {1, 2}

\* Python's None for parent_variable and for membership_value.
NoParent == 0
None == <<>>
Some(d) == <<d>>

-----------------------------------------------------------------------------
(* Arithmetic on samples; samples are real numbers *)

\* np.minimum / np.maximum of two scalars
Min2(x, y) == IF x < y THEN x ELSE y

Max2(x, y) == IF x > y THEN x ELSE y

\* ndarray.max() and ndarray.min() of a non-empty array
ArrMax(mf) == CHOOSE m \in {mf[i] : i \in DOMAIN mf} : \A j \in DOMAIN mf : mf[j] <= m

ArrMin(mf) == CHOOSE m \in {mf[i] : i \in DOMAIN mf} : \A j \in DOMAIN mf : mf[j] >= m

RECURSIVE ArrSum(_)
ArrSum(mf) == IF mf = <<>> THEN 0 ELSE Head(mf) + ArrSum(Tail(mf))

-----------------------------------------------------------------------------
(* The universe of a variable: np.asarray(universe), fixed at construction *)

Universe(v) == <<0, 6, 12>>

USize(v) == Len(Universe(v))

-----------------------------------------------------------------------------
(* OrderedDict: a sequence of [key, id] entries with unique keys *)

Keys(d) == {d[i].key : i \in DOMAIN d}

Get(d, k) == d[CHOOSE i \in DOMAIN d : d[i].key = k].id

Put(d, k, id) ==
    IF k \in Keys(d)
    THEN [i \in DOMAIN d |-> IF d[i].key = k THEN [key |-> k, id |-> id] ELSE d[i]]
    ELSE Append(d, [key |-> k, id |-> id])

Ids(d) == {d[i].id : i \in DOMAIN d}

-----------------------------------------------------------------------------
VARIABLES
    heap,               \* the FuzzyVariableTerm objects constructed so far
    terms,              \* terms[v]: the OrderedDict self.terms of variable v
    locked,             \* locked[v]: self._crisp_value_accessed
    defuzzify_method,   \* defuzzify_method[v]
    result,             \* the outcome of the last call
    accessed            \* accessed[v]: a read or a write of crisp_value of v
                        \* has returned without an error (history)

vars == <<heap, terms, locked, defuzzify_method, result, accessed>>

\* A heap slot holds a live term object or is free.  held: the caller keeps
\* a reference to the object (it constructed the term itself).  derived: the
\* object was constructed by the negation view (history).
FreeSlot ==
    [live |-> FALSE, held |-> FALSE, derived |-> FALSE, label |-> "",
     mf |-> <<>>, parent |-> NoParent, degree |-> None]

\* FuzzyVariableTerm.__init__
NewTermObj(label, mf) ==
    [live |-> TRUE, held |-> FALSE, derived |-> FALSE, label |-> label,
     mf |-> mf, parent |-> NoParent, degree |-> None]

Live(h) == {i \in DOMAIN h : h[i].live}

\* The slot of the next object; 0 when MaxTerms objects are alive
NewId(h) ==
    IF Live(h) = DOMAIN h THEN 0
    ELSE CHOOSE i \in DOMAIN h \ Live(h) : \A j \in DOMAIN h \ Live(h) : i <= j

Alloc(h, obj) == [h EXCEPT ![NewId(h)] = obj]

\* Reference counting: an object referenced neither by the caller nor by a
\* terms mapping is destroyed.
Collect(h, t) ==
    [i \in DOMAIN h |->
        IF h[i].live /\ ~h[i].held /\ (\A v \in Vars : i \notin Ids(t[v]))
        THEN FreeSlot ELSE h[i]]

St == [heap |-> heap, terms |-> terms, locked |-> locked]

Raise(st, kind) ==
    [heap |-> st.heap, terms |-> st.terms, locked |-> st.locked,
     err |-> kind, ret |-> 0]

Return(h, t, l, r) ==
    [heap |-> h, terms |-> t, locked |-> l, err |-> "ok", ret |-> r]

-----------------------------------------------------------------------------
(* FuzzyVariable.__setitem__ : variable[key] = item *)

\* An item is a raw membership function or a term object of the heap.
RawItem(mf) == [kind |-> "curve", mf |-> mf, id |-> 0]

TermItem(id) == [kind |-> "term", mf |-> <<>>, id |-> id]

IsTerm(item) == item.kind = "term"

\* Variant: the label check is missing.
LabelMismatch_Never(h, key, item) == FALSE

LabelMismatch(h, key, item) == h[item.id].label # key

\* Variant: the parent check is missing.
AlreadyBound_Never(h, item) == FALSE

AlreadyBound(h, item) == h[item.id].parent # NoParent

\* Variant: the lock check is missing.
LockRejects_Never(l, v) == FALSE

LockRejects(l, v) == l[v]

ShapeMismatch(v, mf) == Len(mf) # USize(v)

\* Variant: only the upper edge of the band is checked.
OutOfRange_HighOnly(mf) == ArrMax(mf) > ONE + EPS

OutOfRange(mf) == ArrMax(mf) > ONE + EPS \/ ArrMin(mf) < 0 - EPS

\* Variant: the parent is not set.
Bind_Skipped(h, id, v) == h

\* item.parent_variable = self
Bind(h, id, v) == [h EXCEPT ![id].parent = v]

\* self.terms[key] = item
Insert(t, v, key, id) == [t EXCEPT ![v] = Put(t[v], key, id)]

SetItem(st, v, key, item) ==
    IF IsTerm(item) /\ LabelMismatch(st.heap, key, item)
    THEN Raise(st, "ValidationError")
    ELSE IF IsTerm(item) /\ AlreadyBound(st.heap, item)
    THEN Raise(st, "ValidationError")
    ELSE
      \* a raw item is wrapped in a new term; the wrapper of a rejected
      \* registration is dropped with the call
      LET mf == IF IsTerm(item) THEN st.heap[item.id].mf ELSE item.mf
          id == IF IsTerm(item) THEN item.id ELSE NewId(st.heap)
      IN  IF LockRejects(st.locked, v) THEN Raise(st, "StateError")
          ELSE IF ShapeMismatch(v, mf) THEN Raise(st, "ShapeMismatchError")
          ELSE IF OutOfRange(mf) THEN Raise(st, "RangeError")
          ELSE IF id = 0 THEN Raise(st, "Exhausted")
          ELSE LET h1 == IF IsTerm(item) THEN st.heap
                         ELSE Alloc(st.heap, NewTermObj(key, mf))
                   t1 == Insert(st.terms, v, key, id)
               IN  Return(Collect(Bind(h1, id, v), t1), t1, st.locked, id)

-----------------------------------------------------------------------------
(* FuzzyVariable.__getitem__ : variable[key] *)

\* The loop over enumerate(self.terms.keys()), from entry i on (entry i of
\* the model is index i - 1 of the code): the string appended to options
RECURSIVE OptionsFrom(_, _)
OptionsFrom(d, i) ==
    LET i0 == Len(d) - 1
        i1 == Len(d) - 2
    IN  IF i > Len(d) THEN ""
        ELSE (IF i - 1 = i1 THEN "'" \o d[i].key \o "', or "
              ELSE IF i - 1 = i0 THEN "'" \o d[i].key \o "'."
              ELSE "'" \o d[i].key \o "'; ")
             \o OptionsFrom(d, i + 1)

Options(d) == OptionsFrom(d, 1)

\* self.__name__ in the format call of the message: the class FuzzyVariable
\* defines no attribute __name__, so the lookup of it on a FuzzyVariable
\* raises AttributeError before the ValueError is built.
HasName(v) == FALSE

GetItem(st, v, key) ==
    IF key \in Keys(st.terms[v])
    THEN Return(st.heap, st.terms, st.locked, Get(st.terms[v], key))
    ELSE IF HasName(v) THEN Raise(st, "LookupError")
    ELSE Raise(st, "AttributeError")

-----------------------------------------------------------------------------
(* _NotGenerator.__getitem__ : variable.not_[key] *)

NotLabel(key) == "NOT-" \o key

\* Variant: the curve of the positive term is taken as it is.
Complement_Identity(mf) == mf

\* 1. - posterm.mf
Complement(mf) == [i \in DOMAIN mf |-> ONE - mf[i]]

\* Variant: the degree of the positive term is copied.
NegDegree_Copied(d) == d

\* negterm.membership_value, from posterm.membership_value
NegDegree(d) == IF d # None THEN Some(ONE - d[1]) ELSE None

\* Variant: the negated term is derived on every access.
Cached_Never(t, v, lbl) == FALSE

\* Variant: the negated term is never derived.
Cached_Always(t, v, lbl) == TRUE

\* lbl in self.var.terms.keys()
Cached(t, v, lbl) == lbl \in Keys(t[v])

NotGetItem(st, v, key) ==
    LET lbl == NotLabel(key)
    IN  IF Cached(st.terms, v, lbl) THEN GetItem(st, v, lbl)
        ELSE LET pos == GetItem(st, v, key)
             IN  IF pos.err # "ok" THEN pos
                 ELSE IF NewId(st.heap) = 0 THEN Raise(st, "Exhausted")
                 ELSE LET posterm == st.heap[pos.ret]
                          negterm == [NewTermObj(lbl, Complement(posterm.mf))
                                        EXCEPT !.degree = NegDegree(posterm.degree),
                                               !.derived = TRUE]
                          id == NewId(st.heap)
                          r == SetItem([st EXCEPT !.heap = Alloc(st.heap, negterm)],
                                       v, lbl, TermItem(id))
                      \* a negterm that was not registered is dropped
                      IN  IF r.err # "ok" THEN Raise(st, r.err) ELSE r

-----------------------------------------------------------------------------
(* FuzzyVariable._find_crisp_value and the crisp_value getter *)

\* np.minimum(cut, term.mf)
CutMf(cut, mf) == [i \in DOMAIN mf |-> Min2(cut, mf[i])]

\* np.maximum(output_mf, cut_mf, output_mf)
Accumulate(output_mf, cut_mf) ==
    [i \in DOMAIN output_mf |-> Max2(output_mf[i], cut_mf[i])]

\* np.zeros_like(self.universe, dtype=np.float64)
ZerosLike(u) == [i \in DOMAIN u |-> 0]

\* The loop over self.terms.items(), from entry i on: the pair
\* (output_mf, number of entries of cut_mfs)
RECURSIVE BuildOutput(_, _, _, _, _)
BuildOutput(h, d, i, output_mf, ncut) ==
    IF i > Len(d) THEN [output_mf |-> output_mf, ncut |-> ncut]
    ELSE LET term == h[d[i].id]
         IN  IF term.degree = None
             THEN BuildOutput(h, d, i + 1, output_mf, ncut)
             ELSE BuildOutput(h, d, i + 1,
                              Accumulate(output_mf, CutMf(term.degree[1], term.mf)),
                              ncut + 1)

HasNoTerms(d) == Len(d) = 0

FindCrispValue(st, v) ==
    BuildOutput(st.heap, st.terms[v], 1, ZerosLike(Universe(v)), 0)

\* skfuzzy.defuzz(x, mfx, mode): the error kind, and the value as the
\* fraction <<numerator, denominator>>
RECURSIVE DotSum(_, _)
DotSum(u, m) ==
    IF u = <<>> THEN 0 ELSE Head(u) * Head(m) + DotSum(Tail(u), Tail(m))

ArgMaxSet(u, m) == {u[i] : i \in {j \in DOMAIN m : m[j] = ArrMax(m)}}

SetMin(S) == CHOOSE x \in S : \A y \in S : x <= y

SetMax(S) == CHOOSE x \in S : \A y \in S : x >= y

RECURSIVE SetSum(_)
SetSum(S) == IF S = {} THEN 0 ELSE LET x == CHOOSE y \in S : TRUE
                                   IN  x + SetSum(S \ {x})

Defuzz(u, mfx, mode) ==
    IF mode = "centroid"
    THEN IF ArrSum(mfx) = 0
         THEN [err |-> "DegenerateResultError", value |-> <<>>]
         ELSE [err |-> "ok", value |-> <<DotSum(u, mfx), ArrSum(mfx)>>]
    ELSE IF mode \in {"mom", "som", "lom"}
    THEN IF mode = "som"
         THEN [err |-> "ok", value |-> <<SetMin(ArgMaxSet(u, mfx)), 1>>]
         ELSE IF mode = "lom"
         THEN [err |-> "ok", value |-> <<SetMax(ArgMaxSet(u, mfx)), 1>>]
         ELSE [err |-> "ok", value |-> <<SetSum(ArgMaxSet(u, mfx)),
                                         Cardinality(ArgMaxSet(u, mfx))>>]
    ELSE [err |-> "ConfigError", value |-> <<>>]

\* Variant: the check for an empty cut_mfs is missing.
NoCuts_Never(f) == FALSE

\* len(cut_mfs) == 0
NoCuts(f) == f.ncut = 0

\* Variant: the getter does not set the flag.
MarkAccessed_Skipped(st, v) == st

\* self._crisp_value_accessed = True, in the getter
MarkAccessed(st, v) == [st EXCEPT !.locked[v] = TRUE]

\* The getter: the state after the call, the error kind, the aggregated
\* curve and the returned value.
GetCrispValue(st, v, method) ==
    IF HasNoTerms(st.terms[v])
    THEN [st |-> st, err |-> "StateError", out |-> <<>>, value |-> <<>>]
    ELSE LET f == FindCrispValue(st, v)
         IN  IF NoCuts(f)
             THEN [st |-> st, err |-> "StateError", out |-> <<>>, value |-> <<>>]
             ELSE LET st1 == MarkAccessed(st, v)
                      d == Defuzz(Universe(v), f.output_mf, method)
                  IN  [st |-> st1, err |-> d.err, out |-> f.output_mf,
                       value |-> d.value]

-----------------------------------------------------------------------------
(* The crisp_value setter *)

\* skfuzzy.interp_membership(x, xmf, xx): linear interpolation of xmf over
\* the grid x at xx, clamped to the boundary samples outside the grid
InterpMembership(x, xmf, xx) ==
    IF xx <= x[1] THEN xmf[1]
    ELSE IF xx >= x[Len(x)] THEN xmf[Len(x)]
    ELSE LET i == CHOOSE j \in 1..(Len(x) - 1) : x[j] <= xx /\ xx < x[j + 1]
         IN  IF xx = x[i] THEN xmf[i]
             ELSE xmf[i] + ((xx - x[i]) * (xmf[i + 1] - xmf[i])) \div (x[i + 1] - x[i])

\* Variant: only the entry at position i gets a degree.
Propagate_OneEntry(h, d, i, u, value) ==
    IF i > Len(d) THEN h
    ELSE [h EXCEPT ![d[i].id].degree =
              Some(InterpMembership(u, h[d[i].id].mf, value))]

\* The loop over self.terms.items(), from entry i on
RECURSIVE Propagate(_, _, _, _, _)
Propagate(h, d, i, u, value) ==
    IF i > Len(d) THEN h
    ELSE Propagate([h EXCEPT ![d[i].id].degree =
                        Some(InterpMembership(u, h[d[i].id].mf, value))],
                   d, i + 1, u, value)

SetCrispValue(st, v, value) ==
    IF HasNoTerms(st.terms[v]) THEN Raise(st, "StateError")
    ELSE Return(Propagate(st.heap, st.terms[v], 1, Universe(v), value),
                st.terms, [st.locked EXCEPT ![v] = TRUE], 0)

-----------------------------------------------------------------------------
(* FuzzyVariable.automf *)

QualityNames == <<"dismal", "poor", "mediocre", "average", "decent", "good",
                  "excellent">>

QuantNames == <<"lowest", "lower", "low", "average", "high", "higher",
                "highest">>

Reverse(s) == [i \in DOMAIN s |-> s[Len(s) + 1 - i]]

\* The names used when none are passed: names[1:6:2], names[2:5], names[1:6]
\* or all seven
DefaultNames(number, variable_type) ==
    LET all == IF variable_type = "quality" THEN QualityNames ELSE QuantNames
    IN  IF number = 3
        THEN IF variable_type = "quality"
             THEN <<all[2], all[4], all[6]>>
             ELSE SubSeq(all, 3, 5)
        ELSE IF number = 5 THEN SubSeq(all, 2, 6)
        ELSE all

\* skfuzzy.membership.trimf(x, [a, b, c]) at one point of the universe
TrimfAt(x, a, b, c) ==
    IF x = b THEN ONE
    ELSE IF a < x /\ x < b THEN (ONE * (x - a)) \div (b - a)
    ELSE IF b < x /\ x < c THEN (ONE * (c - x)) \div (c - b)
    ELSE 0

Trimf(u, a, b, c) == [i \in DOMAIN u |-> TrimfAt(u[i], a, b, c)]

\* abcs[i] = [c - w / 2, c, c + w / 2] with c = centers[i]; the model calls
\* automf only with numbers for which these are whole numbers
AutoCurve(v, number, i) ==
    LET lo == ArrMin(Universe(v))
        hi == ArrMax(Universe(v))
        step == (hi - lo) \div (number - 1)
        c == lo + (i - 1) * step
    IN  Trimf(Universe(v), c - step, c, c + step)

\* The loop "for name, abc in zip(names, abcs): self[name] = trimf(...)",
\* from position i on; the first failing registration ends it
RECURSIVE Repopulate(_, _, _, _, _)
Repopulate(st, v, names, number, i) ==
    IF i > Len(names) THEN Return(st.heap, st.terms, st.locked, 0)
    ELSE LET r == SetItem(st, v, names[i], RawItem(AutoCurve(v, number, i)))
         IN  IF r.err # "ok" THEN r
             ELSE Repopulate([heap |-> r.heap, terms |-> r.terms,
                              locked |-> r.locked], v, names, number, i + 1)

\* Variant: the mapping is not cleared.
ClearTerms_Skipped(st, v) == st

\* Variant: clearing the mapping also clears the flag.
ClearTerms_Unlocks(st, v) ==
    LET t1 == [st.terms EXCEPT ![v] = <<>>]
    IN  [heap |-> Collect(st.heap, t1), terms |-> t1,
         locked |-> [st.locked EXCEPT ![v] = FALSE]]

\* self.terms = OrderedDict()
ClearTerms(st, v) ==
    LET t1 == [st.terms EXCEPT ![v] = <<>>]
    IN  [heap |-> Collect(st.heap, t1), terms |-> t1, locked |-> st.locked]

Automf(st, v, number, variable_type, hasNames, names, invert) ==
    IF hasNames /\ Len(names) % 2 # 1 THEN Raise(st, "ConfigError")
    ELSE IF ~hasNames /\ number \notin {3, 5, 7} THEN Raise(st, "ConfigError")
    ELSE LET n == IF hasNames THEN Len(names) ELSE number
             nm == IF hasNames THEN names ELSE DefaultNames(number, variable_type)
             ordered == IF invert THEN Reverse(nm) ELSE nm
         IN  Repopulate(ClearTerms(st, v), v, ordered, n, 1)

-----------------------------------------------------------------------------
(* The inputs of the calls *)

\* Membership functions passed by callers: a ramp (in a term built by the
\* caller), the all-zero curve, a curve on the edges of the tolerance band,
\* curves above and below the band and a curve shorter than the universe.
RampMf == <<0, HALF, ONE>>
ZeroMf == <<0, 0, 0>>
BandMf == <<0 - EPS, ONE + EPS, ONE>>
HighMf == <<0, ONE + HALF, 0>>
LowMf == <<0 - EPS - 1, 0, 0>>
ShortMf == <<0, ONE>>

Curves == {ZeroMf, BandMf, HighMf, LowMf, ShortMf}

RegKeys == {"a", "NOT-a"}

LookupKeys == {"a", "zz"}

NotKeys == {"a", "zz"}

\* Crisp values written: below the grid, between two samples, on a sample
\* and above the grid.
XValues == {0 - 1, 3, 6, 13}

\* Degrees the rule engine assigns to a term.
Degrees == {Some(ONE \div 4)}

Methods == {"centroid", "bogus"}

\* Terms built by the caller ahead of registration: <<label, mf>>
Prebuilt == {<<"a", RampMf>>, <<"a", HighMf>>}

\* The automf calls made: three default names of either type in either
\* order, an unsupported number, three and two names passed by the caller.
AutoCall(number, variable_type, hasNames, names, invert) ==
    [number |-> number, variable_type |-> variable_type, hasNames |-> hasNames,
     names |-> names, invert |-> invert]

AutoCalls ==
    {AutoCall(3, ty, FALSE, <<>>, inv) : ty \in {"quality", "quant"}, inv \in BOOLEAN}
    \cup {AutoCall(4, "quality", FALSE, <<>>, FALSE),
          AutoCall(5, "quality", TRUE, <<"lo", "mid", "hi">>, FALSE),
          AutoCall(5, "quality", TRUE, <<"lo", "hi">>, TRUE)}

Items == {RawItem(mf) : mf \in Curves} \cup {TermItem(id) : id \in Live(heap)}

-----------------------------------------------------------------------------
(* The state machine *)

NoCall == [op |-> "init", v |-> 0, err |-> "ok", ret |-> 0]

Init ==
    /\ heap = [i \in 1..MaxTerms |-> FreeSlot]
    /\ terms = [v \in Vars |-> <<>>]
    /\ locked = [v \in Vars |-> FALSE]
    /\ defuzzify_method \in {m \in [Vars -> Methods] : m[2] = "centroid"}
    /\ result = NoCall
    /\ accessed = [v \in Vars |-> FALSE]

\* The effect of a call that ends in the record r
Effect(op, v, r) ==
    /\ r.err # "Exhausted"
    /\ heap' = r.heap
    /\ terms' = r.terms
    /\ locked' = r.locked
    /\ result' = [op |-> op, v |-> v, err |-> r.err, ret |-> r.ret]
    /\ accessed' = IF op \in {"read", "write"} /\ r.err = "ok"
                   THEN [accessed EXCEPT ![v] = TRUE] ELSE accessed
    /\ UNCHANGED defuzzify_method

\* FuzzyVariableTerm(label, mf)
Construct(label, mf) ==
    /\ NewId(heap) # 0
    /\ Cardinality({i \in Live(heap) : heap[i].held}) < MaxHeld
    /\ Effect("construct", 0,
              Return(Alloc(heap, [NewTermObj(label, mf) EXCEPT !.held = TRUE]),
                     terms, locked, NewId(heap)))

\* variable[key] = item
Register(v, key, item) == Effect("setitem", v, SetItem(St, v, key, item))

\* variable[key]
Lookup(v, key) == Effect("getitem", v, GetItem(St, v, key))

\* variable.not_[key]
Negate(v, key) == Effect("not", v, NotGetItem(St, v, key))

\* variable.crisp_value
ReadCrisp(v) ==
    LET r == GetCrispValue(St, v, defuzzify_method[v])
    IN  Effect("read", v, [heap |-> r.st.heap, terms |-> r.st.terms,
                           locked |-> r.st.locked, err |-> r.err, ret |-> 0])

\* variable.crisp_value = x
WriteCrisp(v, x) == Effect("write", v, SetCrispValue(St, v, x))

\* variable.automf(number, variable_type, names, invert)
CallAutomf(v, number, variable_type, hasNames, names, invert) ==
    Effect("automf", v,
           Automf(St, v, number, variable_type, hasNames, names, invert))

\* term.membership_value = d, as the rule engine does
SetDegree(id, d) ==
    Effect("degree", heap[id].parent,
           Return([heap EXCEPT ![id].degree = d], terms, locked, id))

\* Calls on variable 1 alone, with raw curves, the terms the variable
\* returned and a term the caller builds with a sample out of range.
Next ==
    \/ Construct("a", HighMf)
    \/ \E key \in RegKeys, item \in Items : Register(1, key, item)
    \/ \E key \in LookupKeys : Lookup(1, key)
    \/ \E key \in NotKeys : Negate(1, key)
    \/ ReadCrisp(1)
    \/ \E x \in XValues : WriteCrisp(1, x)
    \/ \E a \in AutoCalls :
          CallAutomf(1, a.number, a.variable_type, a.hasNames, a.names, a.invert)
    \/ \E id \in Ids(terms[1]), d \in Degrees : SetDegree(id, d)

Spec == Init /\ [][Next]_vars

\* Registrations on both variables, with terms the caller builds and may pass
\* to either; variable 1 is also read, written and repopulated.
OwnItems == {RawItem(ZeroMf)} \cup {TermItem(id) : id \in Live(heap)}

NextOwn ==
    \/ \E t \in Prebuilt : Construct(t[1], t[2])
    \/ \E v \in Vars, key \in RegKeys, item \in OwnItems : Register(v, key, item)
    \/ ReadCrisp(1)
    \/ WriteCrisp(1, 3)
    \/ CallAutomf(1, 3, "quality", FALSE, <<>>, FALSE)

SpecOwn == Init /\ [][NextOwn]_vars

\* Every way an entry gets into a mapping, on both variables: raw curves,
\* terms the caller builds, the negation view and automf.
NextSources ==
    \/ \E t \in Prebuilt : Construct(t[1], t[2])
    \/ \E v \in Vars, key \in RegKeys, item \in OwnItems : Register(v, key, item)
    \/ \E v \in Vars : Negate(v, "a")
    \/ CallAutomf(1, 3, "quant", FALSE, <<>>, TRUE)

SpecSources == Init /\ [][NextSources]_vars

\* Calls of automf with every supported number, either type and either
\* order, and with unsupported arguments, on variable 1 with and without
\* earlier terms, unlocked and locked.
AutoCallsAll ==
    {AutoCall(n, ty, FALSE, <<>>, inv) :
        n \in {3, 5, 7}, ty \in {"quality", "quant"}, inv \in BOOLEAN}
    \cup {AutoCall(n, "quality", FALSE, <<>>, FALSE) : n \in {4, 9}}
    \cup {AutoCall(5, "quality", TRUE, <<"lo", "hi">>, FALSE)}

InitAuto ==
    /\ heap = [i \in 1..MaxAutoTerms |-> FreeSlot]
    /\ terms = [v \in Vars |-> <<>>]
    /\ locked = [v \in Vars |-> FALSE]
    /\ defuzzify_method = [v \in Vars |-> "centroid"]
    /\ result = NoCall
    /\ accessed = [v \in Vars |-> FALSE]

NextAuto ==
    \/ \E key \in {"a", "average"} : Register(1, key, RawItem(BandMf))
    \/ Negate(1, "average")
    \/ WriteCrisp(1, 3)
    \/ \E a \in AutoCallsAll :
          CallAutomf(1, a.number, a.variable_type, a.hasNames, a.names, a.invert)

SpecAuto == InitAuto /\ [][NextAuto]_vars

-----------------------------------------------------------------------------
(* Properties *)

\* The mapping label -> curve of variable v, in insertion order
TermMap(v) ==
    [i \in DOMAIN terms[v] |-> <<terms[v][i].key, heap[terms[v][i].id].mf>>]

\* C1 as stated: once a crisp-value read or write has succeeded, every
\* registration attempt, whatever the key and the item, fails with StateError
\* and leaves the term mapping and every term's parent and degree as they were.
C1_AlwaysStateError ==
    [][\A v \in Vars, key \in RegKeys, item \in OwnItems :
         (accessed[v] /\ result'.op = "setitem" /\ Register(v, key, item))
            => /\ result'.err = "StateError"
               /\ terms' = terms
               /\ heap' = heap]_vars

\* C1 as amended: once a crisp-value read or write has succeeded, every
\* registration attempt fails and mutates nothing; the error is
\* ValidationError for a pre-built term whose label differs from the key or
\* whose parent is set, and StateError for every other item.
C1_Freeze ==
    [][\A v \in Vars, key \in RegKeys, item \in OwnItems :
         (accessed[v] /\ result'.op = "setitem" /\ Register(v, key, item))
            => /\ result'.err =
                    IF item.kind = "term"
                       /\ (heap[item.id].label # key
                           \/ heap[item.id].parent # NoParent)
                    THEN "ValidationError" ELSE "StateError"
               /\ terms' = terms
               /\ heap' = heap]_vars

\* A term built by the caller, with the key as label and no parent, is
\* refused by a variable whose crisp value was written.
C1_Witness ==
    /\ accessed[1]
    /\ result.op = "setitem"
    /\ result.v = 1
    /\ result.err = "StateError"
    /\ \E id \in Live(heap) :
          heap[id].held /\ heap[id].parent = NoParent /\ heap[id].mf = RampMf

\* C2: once a crisp-value read or write has succeeded, no later call changes
\* the mapping label -> curve of the variable (keys, order, curves).
C2_TermSetFrozen == [][accessed[1] => TermMap(1)' = TermMap(1)]_vars

\* C3: a registration ends with an error and the mapping, the lock flag and
\* the item's parent unchanged, or without an error, the item's term bound
\* to the variable and held by the mapping under the key.
C3_AllOrNothing ==
    [][\A v \in Vars, key \in RegKeys, item \in OwnItems :
         (result'.op = "setitem" /\ result'.v = v /\ Register(v, key, item))
            => \/ /\ result'.err # "ok"
                  /\ terms' = terms
                  /\ locked' = locked
                  /\ heap' = heap
               \/ /\ result'.err = "ok"
                  /\ item.kind = "term" => result'.ret = item.id
                  /\ heap'[result'.ret].live
                  /\ heap'[result'.ret].parent = v
                  /\ key \in Keys(terms'[v])
                  /\ Get(terms'[v], key) = result'.ret]_vars

C3_Witness ==
    /\ result.op = "setitem"
    /\ result.err = "ok"
    /\ heap[result.ret].held
    /\ heap[result.ret].parent = 1
    /\ Get(terms[1], "a") = result.ret

\* C4: a read or a write of crisp_value that raises an error leaves the
\* locked flag as it was before the call.
C4_LockAllOrNothing ==
    [][((ReadCrisp(1) \/ \E x \in XValues : WriteCrisp(1, x))
          /\ result'.err # "ok")
         => locked' = locked]_vars

\* C5: whenever some term has a degree, the aggregated curve of the read is,
\* at every sample, the maximum over the terms with a degree of
\* min(degree, curve sample), and nothing else enters the maximum.
DefinedIds(v) == {id \in Ids(terms[v]) : heap[id].degree # None}

MaxOfCuts(v, i) ==
    LET S == {Min2(heap[id].degree[1], heap[id].mf[i]) : id \in DefinedIds(v)}
    IN  CHOOSE m \in S : \A y \in S : y <= m

C5_Aggregation ==
    \A v \in Vars :
        DefinedIds(v) # {}
            => FindCrispValue(St, v).output_mf =
                   [i \in DOMAIN Universe(v) |-> MaxOfCuts(v, i)]

\* C6 as stated: whenever L and "NOT-L" are both registered, and whenever
\* not_[L] returns a term, the curve of "NOT-L" is 1 - curve(L) at every
\* sample.
IsComplementOf(n, p) ==
    /\ Len(n) = Len(p)
    /\ \A i \in DOMAIN p : n[i] + p[i] = ONE

CurveOf(v, key) == heap[Get(terms[v], key)].mf

C6_AlwaysComplement ==
    /\ [](\A L \in Keys(terms[1]) :
            NotLabel(L) \in Keys(terms[1])
                => IsComplementOf(CurveOf(1, NotLabel(L)), CurveOf(1, L)))
    /\ [][\A key \in NotKeys :
            (Negate(1, key) /\ result'.err = "ok" /\ key \in Keys(terms[1]))
                => IsComplementOf(heap'[result'.ret].mf, CurveOf(1, key))]_vars

\* C6 as amended: when not_[L] finds no "NOT-L" entry and derives one, the
\* term it registers and returns has the curve 1 - curve(L) at every sample.
C6_DerivedComplement ==
    [][\A key \in NotKeys :
         (Negate(1, key) /\ result'.err = "ok"
            /\ NotLabel(key) \notin Keys(terms[1]))
            => /\ heap'[result'.ret].label = NotLabel(key)
               /\ Get(terms'[1], NotLabel(key)) = result'.ret
               /\ IsComplementOf(heap'[result'.ret].mf, CurveOf(1, key))]_vars

C6_Witness ==
    /\ result.op = "not"
    /\ result.err = "ok"
    /\ Keys(terms[1]) = {"a", "NOT-a"}
    /\ CurveOf(1, "a") = BandMf
    /\ heap[result.ret].mf = <<ONE + EPS, 0 - EPS, 0>>

\* C7: on an unlocked variable an access not_[L] that follows a successful
\* access not_[L] returns the same term object and changes nothing, a
\* successful access leaves the returned term under "NOT-L", and no key
\* occurs twice in a mapping.
C7_Idempotent ==
    /\ [](\A v \in Vars : Cardinality(Keys(terms[v])) = Len(terms[v]))
    /\ [][\A key \in NotKeys :
            (Negate(1, key) /\ result'.err = "ok")
                => /\ NotLabel(key) \in Keys(terms'[1])
                   /\ Get(terms'[1], NotLabel(key)) = result'.ret]_vars
    /\ [][\A key \in NotKeys :
            (/\ ~locked[1]
             /\ result.op = "not"
             /\ result.err = "ok"
             /\ heap[result.ret].label = NotLabel(key)
             /\ Negate(1, key))
                => /\ result' = result
                   /\ heap' = heap
                   /\ terms' = terms
                   /\ locked' = locked]_vars

C7_Witness ==
    /\ ~locked[1]
    /\ result.op = "not"
    /\ result.err = "ok"
    /\ "a" \in Keys(terms[1])
    /\ Get(terms[1], "NOT-a") = result.ret

\* C8 as stated: every term of a mapping has a curve as long as the universe
\* with every sample in [-1e-6, 1 + 1e-6]; a registration of a curve of
\* another length fails with ShapeMismatchError and one of a curve with a
\* sample outside the band fails with RangeError.
InBand(s) == 0 - EPS <= s /\ s <= ONE + EPS

RangeShapeInv ==
    \A v \in Vars : \A id \in Ids(terms[v]) :
        /\ heap[id].live
        /\ Len(heap[id].mf) = Len(Universe(v))
        /\ \A i \in DOMAIN heap[id].mf : InBand(heap[id].mf[i])

ItemMf(item) == IF item.kind = "term" THEN heap[item.id].mf ELSE item.mf

C8_RangeShapeAlways ==
    /\ []RangeShapeInv
    /\ [][\A key \in RegKeys, item \in Items :
            (result'.op = "setitem" /\ Register(1, key, item))
                => /\ Len(ItemMf(item)) # Len(Universe(1))
                        => result'.err = "ShapeMismatchError"
                   /\ (\E i \in DOMAIN ItemMf(item) : ~InBand(ItemMf(item)[i]))
                        => result'.err = "RangeError"]_vars

\* C8 as amended: the invariant as stated; on an unlocked variable, for a raw
\* curve or a pre-built term with the key as label and no parent, a curve of
\* another length fails with ShapeMismatchError and a curve of the universe's
\* length with a sample outside the band fails with RangeError.
PassesValidation(key, item) ==
    item.kind = "term"
        => (heap[item.id].label = key /\ heap[item.id].parent = NoParent)

C8_RangeShape ==
    /\ []RangeShapeInv
    /\ [][\A key \in RegKeys, item \in Items :
            (/\ ~locked[1]
             /\ PassesValidation(key, item)
             /\ result'.op = "setitem"
             /\ Register(1, key, item))
                => /\ Len(ItemMf(item)) # Len(Universe(1))
                        => result'.err = "ShapeMismatchError"
                   /\ (/\ Len(ItemMf(item)) = Len(Universe(1))
                       /\ \E i \in DOMAIN ItemMf(item) : ~InBand(ItemMf(item)[i]))
                        => result'.err = "RangeError"]_vars

C8_Witness ==
    /\ result.op = "setitem"
    /\ result.err = "RangeError"
    /\ ~locked[1]
    /\ Keys(terms[1]) = {"a", "NOT-a"}
    /\ CurveOf(1, "a") = BandMf

\* C10: a write of crisp_value with no term registered fails with StateError
\* and leaves the variable unlocked and unchanged; with a term registered it
\* succeeds for every value, gives every registered term a degree and leaves
\* the variable locked.
C10_WriteOutcome ==
    [][\A x \in XValues :
         WriteCrisp(1, x)
            => IF terms[1] = <<>>
               THEN /\ result'.err = "StateError"
                    /\ ~locked'[1]
                    /\ heap' = heap /\ terms' = terms /\ locked' = locked
               ELSE /\ result'.err = "ok"
                    /\ \A id \in Ids(terms[1]) : heap'[id].degree # None
                    /\ terms' = terms
                    /\ locked'[1]]_vars

\* C9: a registration of a pre-built term whose label differs from the key
\* or whose parent is set fails with ValidationError and mutates nothing; no
\* term object is held by the mappings of two variables; the parent of a
\* term, once set, never changes.
C9_ExclusiveOwnership ==
    /\ [](\A v \in Vars, w \in Vars :
            v # w => Ids(terms[v]) \cap Ids(terms[w]) = {})
    /\ [][\A v \in Vars, key \in RegKeys, id \in Live(heap) :
            (/\ heap[id].label # key \/ heap[id].parent # NoParent
             /\ result'.op = "setitem"
             /\ Register(v, key, TermItem(id)))
                => /\ result'.err = "ValidationError"
                   /\ heap' = heap
                   /\ terms' = terms
                   /\ locked' = locked]_vars
    /\ [][\A id \in Live(heap) :
            (heap[id].parent # NoParent /\ heap'[id].live)
                => heap'[id].parent = heap[id].parent]_vars

\* A term built by the caller, bound to variable 1, no longer in its mapping,
\* and just refused by variable 2.
C9_Witness ==
    /\ result.op = "setitem"
    /\ result.v = 2
    /\ result.err = "ValidationError"
    /\ \E id \in Live(heap) :
          /\ heap[id].held
          /\ heap[id].parent = 1
          /\ id \notin Ids(terms[1])

\* C11: after a write of crisp_value x the degree of every registered term is
\* the piecewise-linear interpolation of the term's curve over the universe
\* at x: the curve sample where x is a universe sample, the first or the last
\* curve sample where x lies below or above the grid, and the point on the
\* segment between the two neighbouring samples otherwise.
IsInterpolation(u, mf, x, d) ==
    /\ \A i \in DOMAIN u : x = u[i] => d = mf[i]
    /\ x < u[1] => d = mf[1]
    /\ x > u[Len(u)] => d = mf[Len(u)]
    /\ \A i \in 1..(Len(u) - 1) :
          (u[i] < x /\ x < u[i + 1])
              => d * (u[i + 1] - u[i])
                   = mf[i] * (u[i + 1] - x) + mf[i + 1] * (x - u[i])

C11_RoundTrip ==
    [][\A x \in XValues :
         (result'.op = "write" /\ result'.err = "ok" /\ WriteCrisp(1, x))
            => \A id \in Ids(terms[1]) :
                  /\ heap'[id].degree # None
                  /\ heap'[id].mf = heap[id].mf
                  /\ IsInterpolation(Universe(1), heap[id].mf, x,
                                     heap'[id].degree[1])]_vars

\* Two terms after a write between two samples: the band curve at its
\* midpoint and its complement.
C11_Witness ==
    /\ result.op = "write"
    /\ result.err = "ok"
    /\ Keys(terms[1]) = {"a", "NOT-a"}
    /\ CurveOf(1, "a") = BandMf
    /\ heap[Get(terms[1], "a")].degree = Some(HALF)
    /\ heap[Get(terms[1], "NOT-a")].degree # None

\* C12: a read of crisp_value fails with StateError when no registered term
\* has a degree (also when no term is registered), and does not fail with
\* StateError when some registered term has a degree.
C12_ReadPrecondition ==
    [][(result'.op = "read" /\ ReadCrisp(1))
         => (result'.err = "StateError" <=> DefinedIds(1) = {})]_vars

\* A read refused on a variable with terms, none of which has a degree.
C12_Witness ==
    /\ result.op = "read"
    /\ result.err = "StateError"
    /\ Len(terms[1]) = 2
    /\ DefinedIds(1) = {}

\* C13: a lookup of a label absent from the mapping fails with LookupError
\* and mutates nothing, and the options fragment of the message lists every
\* registered label once, in insertion order, in single quotes, with "; "
\* after each label but the last two, ", or " after the second-to-last and
\* "." after the last.
RECURSIVE ExpectedFragment(_)
ExpectedFragment(labels) ==
    IF Len(labels) = 0 THEN ""
    ELSE "'" \o Head(labels) \o "'"
         \o (IF Len(labels) = 1 THEN "."
             ELSE IF Len(labels) = 2 THEN ", or "
             ELSE "; ")
         \o ExpectedFragment(Tail(labels))

LabelsOf(d) == [i \in DOMAIN d |-> d[i].key]

C13_LookupFormat ==
    [][\A key \in LookupKeys :
         (result'.op = "getitem" /\ key \notin Keys(terms[1]) /\ Lookup(1, key))
            => /\ result'.err = "LookupError"
               /\ heap' = heap /\ terms' = terms /\ locked' = locked
               /\ Options(terms[1]) = ExpectedFragment(LabelsOf(terms[1]))]_vars

\* C14 as stated: on a locked variable not_[L] for a registered L returns
\* the "NOT-L" term without an error when that term was derived by not_
\* before the lock, and fails with StateError and adds no entry when it was
\* not.
NotEntryDerived(v, key) ==
    /\ NotLabel(key) \in Keys(terms[v])
    /\ heap[Get(terms[v], NotLabel(key))].derived

C14_UnderivedFails ==
    [][\A key \in NotKeys :
         (/\ locked[1]
          /\ key \in Keys(terms[1])
          /\ result'.op = "not"
          /\ Negate(1, key))
            => /\ heap' = heap /\ terms' = terms /\ locked' = locked
               /\ IF NotEntryDerived(1, key)
                  THEN /\ result'.err = "ok"
                       /\ result'.ret = Get(terms[1], NotLabel(key))
                  ELSE result'.err = "StateError"]_vars

\* C14 as amended: on a locked variable not_[L] for a registered L returns
\* the entry under "NOT-L" without an error when the mapping has one, derived
\* or registered directly, and fails with StateError and adds no entry when
\* the mapping has none.
C14_NegationLock ==
    [][\A key \in NotKeys :
         (/\ locked[1]
          /\ key \in Keys(terms[1])
          /\ result'.op = "not"
          /\ Negate(1, key))
            => /\ heap' = heap /\ terms' = terms /\ locked' = locked
               /\ IF NotLabel(key) \in Keys(terms[1])
                  THEN /\ result'.err = "ok"
                       /\ result'.ret = Get(terms[1], NotLabel(key))
                  ELSE result'.err = "StateError"]_vars

\* A derivation refused on a locked variable that has L and no "NOT-L".
C14_Witness ==
    /\ result.op = "not"
    /\ result.err = "StateError"
    /\ locked[1]
    /\ Keys(terms[1]) = {"a"}

\* C15: when not_[L] derives a new "NOT-L" term, the degree of that term is
\* 1 - degree(L) if L has a degree and is unset if L has none, and the
\* degree of L and of every other term is left as it was.
C15_NegationDegree ==
    [][\A key \in NotKeys :
         (/\ NotLabel(key) \notin Keys(terms[1])
          /\ result'.op = "not"
          /\ result'.err = "ok"
          /\ Negate(1, key))
            => LET pos == heap[Get(terms[1], key)]
                   neg == heap'[result'.ret]
               IN  /\ result'.ret \notin Live(heap)
                   /\ pos.degree # None
                        => neg.degree = Some(ONE - pos.degree[1])
                   /\ pos.degree = None => neg.degree = None
                   /\ \A id \in Live(heap) :
                         /\ heap'[id].live
                         /\ heap'[id].degree = heap[id].degree]_vars

\* A term just derived from a term of degree 0.25.
C15_Witness ==
    /\ result.op = "not"
    /\ result.err = "ok"
    /\ heap[result.ret].derived
    /\ heap[result.ret].degree = Some(ONE - ONE \div 4)
    /\ heap[Get(terms[1], "a")].degree = Some(ONE \div 4)

\* C16: a successful read of crisp_value leaves the term mapping and every
\* term's curve, degree and parent as they were, and sets the locked flag of
\* the variable; it changes nothing else.
C16_ReadFrame ==
    [][(result'.op = "read" /\ result'.err = "ok" /\ ReadCrisp(1))
         => /\ terms' = terms
            /\ heap' = heap
            /\ locked' = [locked EXCEPT ![1] = TRUE]
            /\ defuzzify_method' = defuzzify_method]_vars

\* A successful read with a term that never got a degree: no write preceded.
C16_Witness ==
    /\ result.op = "read"
    /\ result.err = "ok"
    /\ locked[1]
    /\ Len(terms[1]) = 2
    /\ \E id \in Ids(terms[1]) : heap[id].degree = None

\* C17: a successful automf(number) with number 3, 5 or 7 on an unlocked
\* variable leaves exactly number terms, all new, whose labels are names of
\* the documented list in its order (reversed when invert is true) with
\* "average" in the middle; automf with another number and no names, or with
\* an even number of names, fails and leaves the terms as they were.
RECURSIVE IsSubSeqFrom(_, _, _, _)
IsSubSeqFrom(s, i, t, j) ==
    IF i > Len(s) THEN TRUE
    ELSE IF j > Len(t) THEN FALSE
    ELSE IF s[i] = t[j] THEN IsSubSeqFrom(s, i + 1, t, j + 1)
    ELSE IsSubSeqFrom(s, i, t, j + 1)

Documented(variable_type) ==
    IF variable_type = "quality"
    THEN <<"dismal", "poor", "mediocre", "average", "decent", "good", "excellent">>
    ELSE <<"lowest", "lower", "low", "average", "high", "higher", "highest">>

Unsupported(a) ==
    \/ ~a.hasNames /\ a.number \notin {3, 5, 7}
    \/ a.hasNames /\ Len(a.names) % 2 = 0

C17_AutomfTermSet ==
    [][\A a \in AutoCallsAll :
         (/\ result'.op = "automf"
          /\ CallAutomf(1, a.number, a.variable_type, a.hasNames, a.names,
                        a.invert))
            => /\ (~a.hasNames /\ a.number \in {3, 5, 7} /\ ~locked[1])
                    => LET ks == LabelsOf(terms'[1])
                           ord == IF a.invert THEN Reverse(ks) ELSE ks
                       IN  /\ result'.err = "ok"
                           /\ Len(ks) = a.number
                           /\ ord[(a.number + 1) \div 2] = "average"
                           /\ IsSubSeqFrom(ord, 1, Documented(a.variable_type), 1)
                           /\ \A id \in Ids(terms'[1]) :
                                 /\ heap'[id].parent = 1
                                 /\ heap'[id].degree = None
                                 /\ ~heap'[id].derived
               /\ Unsupported(a)
                    => /\ result'.err # "ok"
                       /\ terms' = terms
                       /\ heap' = heap
                       /\ locked' = locked]_vars

\* The seven terms of the quant list, in reversed order.
C17_Witness ==
    /\ result.op = "automf"
    /\ result.err = "ok"
    /\ LabelsOf(terms[1]) = Reverse(QuantNames)

\* C18: in every reachable state every entry (key, term) of the mapping of a
\* variable has term.label = key and term.parent = that variable.
C18_WellFormed ==
    \A v \in Vars : \A i \in DOMAIN terms[v] :
        /\ heap[terms[v][i].id].live
        /\ heap[terms[v][i].id].label = terms[v][i].key
        /\ heap[terms[v][i].id].parent = v

\* Variable 1 holds a term built by the caller and a derived term, variable
\* 2 a term from a raw curve.
C18_Witness ==
    /\ Keys(terms[1]) = {"a", "NOT-a"}
    /\ heap[Get(terms[1], "a")].held
    /\ heap[Get(terms[1], "NOT-a")].derived
    /\ Keys(terms[2]) = {"NOT-a"}
    /\ ~heap[Get(terms[2], "NOT-a")].derived

\* C19: a variable starts unlocked, and no call, whether it succeeds or
\* fails, sets a locked flag that is true back to false.
C19_LockMonotone ==
    /\ \A v \in Vars : ~locked[v]
    /\ [][\A v \in Vars : locked[v] => locked'[v]]_vars

\* A locked variable after a failed automf that emptied its mapping.
C19_Witness ==
    /\ locked[1]
    /\ result.op = "automf"
    /\ result.err = "StateError"
    /\ terms[1] = <<>>

====
